---- MODULE Spec2Model ----
(***************************************************************************)
(* MerkleDB: a content-addressable object store (ObjectStore), the Tree    *)
(* and Commit objects built on it, and the Workspace staging area.         *)
(*                                                                         *)
(* Representation.  A Go string / []byte of JSON text is a sequence of     *)
(* characters.  A character is a TLA+ string: a string of length one is    *)
(* that literal character; a longer string "sha256(...)" is a hex run, the *)
(* 64 lowercase hex digits of the SHA-256 digest of the text named inside  *)
(* the parentheses.  A raw byte sequence (a storage key) is a sequence of  *)
(* records: [b |-> n, d |-> ""] is the byte n, [b |-> -1, d |-> t] is the  *)
(* 32 bytes of the digest named by t.  SHA-256 itself is modelled as the   *)
(* ideal (collision-free) digest: it names the text it was computed from.  *)
(***************************************************************************)
EXTENDS Integers, Sequences, FiniteSets, TLC

(* ----------------------------- text helpers ---------------------------- *)

Q == "\""

BSL == "\\"

\* The printable ASCII characters, code 32 first (code 96, the grave accent,
\* is left out: its place holds the empty string).
Ascii ==
  << " ", "!", "\"", "#", "$", "%", "&", "'", "(", ")", "*", "+", ",", "-", ".", "/",
     "0", "1", "2", "3", "4", "5", "6", "7", "8", "9", ":", ";", "<", "=", ">", "?",
     "@", "A", "B", "C", "D", "E", "F", "G", "H", "I", "J", "K", "L", "M", "N", "O",
     "P", "Q", "R", "S", "T", "U", "V", "W", "X", "Y", "Z", "[", "\\", "]", "^", "_",
     "",  "a", "b", "c", "d", "e", "f", "g", "h", "i", "j", "k", "l", "m", "n", "o",
     "p", "q", "r", "s", "t", "u", "v", "w", "x", "y", "z", "{", "|", "}", "~" >>

\* Literal character -> its byte value.
OrdTable ==
  [c \in {Ascii[i] : i \in 1..Len(Ascii)} |-> 31 + (CHOOSE i \in 1..Len(Ascii) : Ascii[i] = c)]

\* The byte value of a literal character.
Ord(c) == OrdTable[c]

\* A hex run stands for the 64 hex digits of a digest.
IsRun(c) == Len(c) > 1

RECURSIVE Cat(_)
\* The text of a character sequence, as one name.
Cat(s) == IF s = <<>> THEN "" ELSE Head(s) \o Cat(Tail(s))

RECURSIVE Concat(_)
\* The concatenation of a sequence of character sequences.
Concat(ss) == IF ss = <<>> THEN <<>> ELSE Head(ss) \o Concat(Tail(ss))

RECURSIVE StartsWith(_, _, _)
\* Whether text b holds the literal lit at position i.
StartsWith(b, i, lit) ==
  IF lit = <<>> THEN TRUE
  ELSE IF i > Len(b) THEN FALSE
  ELSE b[i] = Head(lit) /\ StartsWith(b, i + 1, Tail(lit))

(* ------------------------------ Go errors ------------------------------ *)

\* An error is its chain of messages, outermost first; nil is the empty chain.
NoErr == <<>>

ErrNotFound == <<"key not found">>

ErrPut == <<"backend put failed">>

ErrSerialize == <<"serialize failed">>

ErrLength == <<"encoding/hex: odd length hex string">>

ErrInvalidByte == <<"encoding/hex: invalid byte">>

\* fmt.Errorf("msg: %w", err)
Wrap(msg, err) == <<msg>> \o err

\* errors.Is(err, target) for a sentinel target
ErrorsIs(err, target) ==
  \E i \in 1..Len(err) : SubSeq(err, i, Len(err)) = target

(* ------------------------- encoding/json, strings ---------------------- *)

HexDigits == <<"0", "1", "2", "3", "4", "5", "6", "7", "8", "9", "a", "b", "c", "d", "e", "f">>

\* json.Marshal escapes these as \u00XX (HTML-safe encoding is on by default).
HTMLChars == {"<", ">", "&"}

\* The JSON text of one character of a Go string.
EscapeChar(c) ==
  IF IsRun(c) THEN <<c>>
  ELSE IF c = Q \/ c = BSL THEN <<BSL, c>>
  ELSE IF c \in HTMLChars
    THEN <<BSL, "u", "0", "0", HexDigits[(Ord(c) \div 16) + 1], HexDigits[(Ord(c) % 16) + 1]>>
  ELSE <<c>>

\* json.Marshal of a Go string: quoted, with the special characters escaped.
JSONString(s) == <<Q>> \o Concat([i \in 1..Len(s) |-> EscapeChar(s[i])]) \o <<Q>>

\* A Go []string: nil, or a (possibly empty) sequence of strings.
NilSlice == [nil |-> TRUE, elems |-> <<>>]

Slice(elems) == [nil |-> FALSE, elems |-> elems]

RECURSIVE JoinJSON(_)
\* The JSON texts of the strings of a sequence, separated by commas.
JoinJSON(ss) ==
  IF ss = <<>> THEN <<>>
  ELSE IF Len(ss) = 1 THEN JSONString(ss[1])
  ELSE JSONString(ss[1]) \o <<",">> \o JoinJSON(Tail(ss))

\* json.Marshal of a []string: a nil slice encodes as null.
JSONStringSlice(sl) ==
  IF sl.nil THEN <<"n", "u", "l", "l">>
  ELSE <<"[">> \o JoinJSON(sl.elems) \o <<"]">>

\* The commit clock counts seconds after 2025-01-01T00:00:00Z, below one minute.
\* json.Marshal of a time.Time in UTC: a quoted RFC 3339 timestamp.
JSONTime(t) ==
  <<Q, "2", "0", "2", "5", "-", "0", "1", "-", "0", "1", "T", "0", "0", ":", "0", "0", ":",
    HexDigits[(t \div 10) + 1], HexDigits[(t % 10) + 1], "Z", Q>>

(* ------------------------- crypto/sha256, encoding/hex ----------------- *)

\* sha256.Size: the bytes of a digest.
DigestSize == 32

\* A digest with the bug of covering the first two bytes of the data only.
Sum256Prefix(data) ==
  [b |-> -1, d |-> "sha256(" \o Cat(SubSeq(data, 1, IF Len(data) < 2 THEN Len(data) ELSE 2)) \o ")"]

\* sha256.Sum256(data): the digest, which names the text it was computed from.
Sum256(data) == [b |-> -1, d |-> "sha256(" \o Cat(data) \o ")"]

\* The hex digits of one raw byte, or the hex run of a digest.
HexOfByte(x) ==
  IF x.b = -1 THEN <<x.d>>
  ELSE <<HexDigits[(x.b \div 16) + 1], HexDigits[(x.b % 16) + 1]>>

\* hex.EncodeToString(bytes)
EncodeToString(bytes) == Concat([i \in 1..Len(bytes) |-> HexOfByte(bytes[i])])

\* The value of a hex digit, -1 for any other character.
HexVal(c) ==
  IF Ord(c) >= 48 /\ Ord(c) <= 57 THEN Ord(c) - 48
  ELSE IF Ord(c) >= 97 /\ Ord(c) <= 102 THEN Ord(c) - 87
  ELSE IF Ord(c) >= 65 /\ Ord(c) <= 70 THEN Ord(c) - 55
  ELSE -1

RECURSIVE HexDecode(_, _)
\* hex.Decode: two digits make a byte (a hex run makes a digest); a bad digit is
\* reported before an odd length.  Hex runs are met at even offsets only.
HexDecode(s, acc) ==
  IF s = <<>> THEN [bytes |-> acc, err |-> NoErr]
  ELSE IF IsRun(Head(s)) THEN HexDecode(Tail(s), Append(acc, [b |-> -1, d |-> Head(s)]))
  ELSE IF HexVal(s[1]) = -1 THEN [bytes |-> acc, err |-> ErrInvalidByte]
  ELSE IF Len(s) = 1 THEN [bytes |-> acc, err |-> ErrLength]
  ELSE IF HexVal(s[2]) = -1 THEN [bytes |-> acc, err |-> ErrInvalidByte]
  ELSE HexDecode(Tail(Tail(s)), Append(acc, [b |-> (16 * HexVal(s[1])) + HexVal(s[2]), d |-> ""]))

\* hex.DecodeString(s)
DecodeString(s) == HexDecode(s, <<>>)

(* ------------------------------- Objects ------------------------------- *)

\* A user record (mockObject): two serialized fields.  ptr tells apart two values
\* with the same content; bad marks an Object whose Serialize returns an error.
NoObj == [ID |-> <<>>, Data |-> <<>>, ptr |-> 0, bad |-> FALSE]

\* mockObject.Serialize: json.Marshal of the struct, fields in declaration order.
SerializeObject(o) ==
  IF o.bad THEN [data |-> <<>>, err |-> ErrSerialize]
  ELSE [data |-> <<"{", Q, "i", "d", Q, ":">> \o JSONString(o.ID)
                 \o <<",", Q, "d", "a", "t", "a", Q, ":">> \o JSONString(o.Data) \o <<"}">>,
        err |-> NoErr]

RECURSIVE LessString(_, _)
\* Go's a < b on strings: byte-wise, a proper prefix first.
LessString(a, b) ==
  IF b = <<>> THEN FALSE
  ELSE IF a = <<>> THEN TRUE
  ELSE IF Head(a) = Head(b) THEN LessString(Tail(a), Tail(b))
  ELSE Ord(Head(a)) < Ord(Head(b))

RECURSIVE InsertSorted(_, _)
InsertSorted(sorted, x) ==
  IF sorted = <<>> THEN <<x>>
  ELSE IF LessString(x, Head(sorted)) THEN <<x>> \o sorted
  ELSE <<Head(sorted)>> \o InsertSorted(Tail(sorted), x)

RECURSIVE SortStrings(_)
\* sort.Strings(keys)
SortStrings(keys) ==
  IF keys = <<>> THEN <<>>
  ELSE InsertSorted(SortStrings(Tail(keys)), Head(keys))

\* The orders in which a range over a map with key set S may visit the keys.
RangeOrders(S) ==
  {o \in [1..Cardinality(S) -> S] : \A i, j \in 1..Cardinality(S) : o[i] = o[j] => i = j}

RECURSIVE TreePairs(_, _, _)
\* The loop of Tree.Serialize over the sorted keys, from index i.
TreePairs(entries, keys, i) ==
  IF i > Len(keys) THEN <<>>
  ELSE (IF i > 1 THEN <<",">> ELSE <<>>)
       \o JSONString(keys[i]) \o <<":">> \o JSONString(entries[keys[i]])
       \o TreePairs(entries, keys, i + 1)

\* Tree.Serialize with the bug of leaving the keys as the range over the map met them.
TreeKeysUnsorted(order) == order

\* The keys Tree.Serialize emits, in order, when the range over the map met them
\* in the given order.
TreeKeys(order) == SortStrings(order)

\* Tree.Serialize, when the range over the map visits the keys in the given order.
SerializeTree(entries, order) ==
  [data |-> <<"{">> \o TreePairs(entries, TreeKeys(order), 1) \o <<"}">>, err |-> NoErr]

\* Commit.Serialize: json.Marshal of the struct.
SerializeCommit(c) ==
  [data |-> <<"{", Q, "t", "r", "e", "e", Q, ":">> \o JSONString(c.TreeHash)
            \o <<",", Q, "p", "a", "r", "e", "n", "t", "s", Q, ":">> \o JSONStringSlice(c.ParentHashes)
            \o <<",", Q, "m", "e", "s", "s", "a", "g", "e", Q, ":">> \o JSONString(c.Message)
            \o <<",", Q, "t", "i", "m", "e", "s", "t", "a", "m", "p", Q, ":">> \o JSONTime(c.Timestamp)
            \o <<"}">>,
   err |-> NoErr]

(* --------------------------- Storage backend --------------------------- *)

\* A Put with the bug of appending to the value a key already has.
MapPutAppend(st, key, value) ==
  [k \in (DOMAIN st) \cup {key} |->
     IF k # key THEN st[k] ELSE IF key \in DOMAIN st THEN st[key] \o value ELSE value]

\* mockStorage.Put on the map.
MapPut(st, key, value) ==
  [k \in (DOMAIN st) \cup {key} |-> IF k = key THEN value ELSE st[k]]

\* Storage.Put: either it stores the value, or it fails and stores nothing.
StoragePut(st, key, value, fails) ==
  IF fails THEN [st |-> st, err |-> ErrPut]
  ELSE [st |-> MapPut(st, key, value), err |-> NoErr]

\* Storage.Get
StorageGet(st, key) ==
  IF key \in DOMAIN st THEN [value |-> st[key], err |-> NoErr]
  ELSE [value |-> <<>>, err |-> ErrNotFound]

(* ----------------------------- ObjectStore ----------------------------- *)

\* WriteObject with the bug of using the hex string's bytes as the storage key.
WriteObjectHexKey(st, ser, fails) ==
  IF ser.err # NoErr
    THEN [hash |-> <<>>, err |-> Wrap("failed to serialize object", ser.err), st |-> st, puts |-> 0]
  ELSE LET hashBytes == Sum256(ser.data)
           hashHex == EncodeToString(<<hashBytes>>)
           r == StoragePut(st, <<[b |-> -2, d |-> hashBytes.d]>>, ser.data, fails)
       IN IF r.err # NoErr
            THEN [hash |-> <<>>, err |-> Wrap("failed to store object", r.err), st |-> r.st, puts |-> 0]
          ELSE [hash |-> hashHex, err |-> NoErr, st |-> r.st, puts |-> 1]

\* WriteObject with the bug of hashing the data together with the number of
\* objects already stored.
WriteObjectSalted(st, ser, fails) ==
  IF ser.err # NoErr
    THEN [hash |-> <<>>, err |-> Wrap("failed to serialize object", ser.err), st |-> st, puts |-> 0]
  ELSE LET hashBytes == Sum256(ser.data \o <<HexDigits[(Cardinality(DOMAIN st) % 16) + 1]>>)
           hashHex == EncodeToString(<<hashBytes>>)
           r == StoragePut(st, <<hashBytes>>, ser.data, fails)
       IN IF r.err # NoErr
            THEN [hash |-> <<>>, err |-> Wrap("failed to store object", r.err), st |-> r.st, puts |-> 0]
          ELSE [hash |-> hashHex, err |-> NoErr, st |-> r.st, puts |-> 1]

\* ObjectStore.WriteObject, given what obj.Serialize() returned and whether the
\* backend's Put fails.  puts counts the backend Put calls that stored a value.
WriteObject(st, ser, fails) ==
  IF ser.err # NoErr
    THEN [hash |-> <<>>, err |-> Wrap("failed to serialize object", ser.err), st |-> st, puts |-> 0]
  ELSE LET hashBytes == Sum256(ser.data)
           hashHex == EncodeToString(<<hashBytes>>)
           r == StoragePut(st, <<hashBytes>>, ser.data, fails)
       IN IF r.err # NoErr
            THEN [hash |-> <<>>, err |-> Wrap("failed to store object", r.err), st |-> r.st, puts |-> 0]
          ELSE [hash |-> hashHex, err |-> NoErr, st |-> r.st, puts |-> 1]

\* ReadRawObject with the bug of formatting the backend's error with %v, which
\* keeps its text and drops the error it was.
ReadRawObjectFlat(st, hash) ==
  LET dec == DecodeString(hash)
  IN IF dec.err # NoErr
       THEN [data |-> <<>>, err |-> Wrap("failed to decode hash", dec.err)]
     ELSE LET g == StorageGet(st, dec.bytes)
          IN IF g.err # NoErr
               THEN [data |-> <<>>, err |-> <<"failed to read object: " \o Cat(g.err)>>]
             ELSE [data |-> g.value, err |-> NoErr]

\* ObjectStore.ReadRawObject
ReadRawObject(st, hash) ==
  LET dec == DecodeString(hash)
  IN IF dec.err # NoErr
       THEN [data |-> <<>>, err |-> Wrap("failed to decode hash", dec.err)]
     ELSE LET g == StorageGet(st, dec.bytes)
          IN IF g.err # NoErr
               THEN [data |-> <<>>, err |-> Wrap("failed to read object", g.err)]
             ELSE [data |-> g.value, err |-> NoErr]

\* CreateCommit with the bug of not looking at the store it is given.
CreateCommitNoNilCheck(st, storeNil, treeHash, message, parentHashes, now, fails) ==
  LET commit == [TreeHash |-> treeHash, ParentHashes |-> parentHashes,
                 Message |-> message, Timestamp |-> now]
      w == WriteObject(st, SerializeCommit(commit), fails)
  IN IF w.err # NoErr
       THEN [hash |-> <<>>, err |-> Wrap("failed to write commit", w.err), st |-> w.st, puts |-> w.puts]
     ELSE [hash |-> w.hash, err |-> NoErr, st |-> w.st, puts |-> w.puts]

\* CreateCommit with the bug of sorting the parent hashes.
CreateCommitSortedParents(st, storeNil, treeHash, message, parentHashes, now, fails) ==
  IF storeNil
    THEN [hash |-> <<>>, err |-> <<"object store cannot be nil">>, st |-> st, puts |-> 0]
  ELSE LET commit == [TreeHash |-> treeHash,
                      ParentHashes |-> [parentHashes EXCEPT !.elems = SortStrings(@)],
                      Message |-> message, Timestamp |-> now]
           w == WriteObject(st, SerializeCommit(commit), fails)
       IN IF w.err # NoErr
            THEN [hash |-> <<>>, err |-> Wrap("failed to write commit", w.err), st |-> w.st, puts |-> w.puts]
          ELSE [hash |-> w.hash, err |-> NoErr, st |-> w.st, puts |-> w.puts]

\* CreateCommit: a nil store is refused; otherwise the commit is built with the
\* current UTC time and written.
CreateCommit(st, storeNil, treeHash, message, parentHashes, now, fails) ==
  IF storeNil
    THEN [hash |-> <<>>, err |-> <<"object store cannot be nil">>, st |-> st, puts |-> 0]
  ELSE LET commit == [TreeHash |-> treeHash, ParentHashes |-> parentHashes,
                      Message |-> message, Timestamp |-> now]
           w == WriteObject(st, SerializeCommit(commit), fails)
       IN IF w.err # NoErr
            THEN [hash |-> <<>>, err |-> Wrap("failed to write commit", w.err), st |-> w.st, puts |-> w.puts]
          ELSE [hash |-> w.hash, err |-> NoErr, st |-> w.st, puts |-> w.puts]

(* ------------------------------ Workspace ------------------------------ *)

\* NewWorkspace: a nil store is refused; otherwise a workspace with an empty
\* staging tree (NewTree) is returned.  ok tells whether a workspace is returned.
NewWorkspace(storeNil) ==
  IF storeNil
    THEN [ok |-> FALSE, err |-> <<"object store cannot be nil">>, entries |-> [k \in {} |-> <<>>]]
  ELSE [ok |-> TRUE, err |-> NoErr, entries |-> [k \in {} |-> <<>>]]

\* Workspace.Add with the bug of writing the staging tree as well, once the
\* entry is recorded.
WorkspaceAddEager(st, entries, name, obj, fails) ==
  LET w == WriteObject(st, SerializeObject(obj), fails)
      e == MapPut(entries, name, w.hash)
      t == WriteObject(w.st, SerializeTree(e, CHOOSE o \in RangeOrders(DOMAIN e) : TRUE), FALSE)
  IN IF w.err # NoErr
       THEN [err |-> Wrap("failed to write object '" \o Cat(name) \o "'", w.err),
             entries |-> entries, st |-> w.st, hash |-> <<>>, puts |-> w.puts]
     ELSE [err |-> NoErr, entries |-> e, st |-> t.st, hash |-> w.hash, puts |-> w.puts + t.puts]

\* Workspace.Add with the bug of only recording the hash, the write being left
\* to a later Commit.
WorkspaceAddDeferred(st, entries, name, obj, fails) ==
  LET ser == SerializeObject(obj)
  IN IF ser.err # NoErr
       THEN [err |-> Wrap("failed to write object '" \o Cat(name) \o "'",
                          Wrap("failed to serialize object", ser.err)),
             entries |-> entries, st |-> st, hash |-> <<>>, puts |-> 0]
     ELSE [err |-> NoErr,
           entries |-> MapPut(entries, name, EncodeToString(<<Sum256(ser.data)>>)),
           st |-> st, hash |-> EncodeToString(<<Sum256(ser.data)>>), puts |-> 0]

\* Workspace.Add with the bug of recording the entry before it looks at the
\* error of the write.
WorkspaceAddEntryFirst(st, entries, name, obj, fails) ==
  LET w == WriteObject(st, SerializeObject(obj), fails)
  IN IF w.err # NoErr
       THEN [err |-> Wrap("failed to write object '" \o Cat(name) \o "'", w.err),
             entries |-> MapPut(entries, name, w.hash), st |-> w.st, hash |-> <<>>, puts |-> w.puts]
     ELSE [err |-> NoErr, entries |-> MapPut(entries, name, w.hash), st |-> w.st,
           hash |-> w.hash, puts |-> w.puts]

\* Workspace.Add with the bug of keeping the entry a name already has.
WorkspaceAddKeepFirst(st, entries, name, obj, fails) ==
  LET w == WriteObject(st, SerializeObject(obj), fails)
  IN IF w.err # NoErr
       THEN [err |-> Wrap("failed to write object '" \o Cat(name) \o "'", w.err),
             entries |-> entries, st |-> w.st, hash |-> <<>>, puts |-> w.puts]
     ELSE [err |-> NoErr,
           entries |-> IF name \in DOMAIN entries THEN entries ELSE MapPut(entries, name, w.hash),
           st |-> w.st, hash |-> w.hash, puts |-> w.puts]

\* Workspace.Add: write the object, then record name -> hash in the staging tree.
WorkspaceAdd(st, entries, name, obj, fails) ==
  LET w == WriteObject(st, SerializeObject(obj), fails)
  IN IF w.err # NoErr
       THEN [err |-> Wrap("failed to write object '" \o Cat(name) \o "'", w.err),
             entries |-> entries, st |-> w.st, hash |-> <<>>, puts |-> w.puts]
     ELSE [err |-> NoErr, entries |-> MapPut(entries, name, w.hash), st |-> w.st,
           hash |-> w.hash, puts |-> w.puts]

\* Workspace.Commit with the bug of starting a fresh staging tree after a
\* successful commit.
WorkspaceCommitClearing(st, entries, order, message, parentHashes, now, failTree, failCommit) ==
  LET t == WriteObject(st, SerializeTree(entries, order), failTree)
  IN IF t.err # NoErr
       THEN [hash |-> <<>>, err |-> Wrap("failed to write tree", t.err), st |-> t.st,
             entries |-> entries, treeHash |-> <<>>, puts |-> t.puts]
     ELSE LET c == CreateCommit(t.st, FALSE, t.hash, message, parentHashes, now, failCommit)
          IN IF c.err # NoErr
               THEN [hash |-> <<>>, err |-> Wrap("failed to create commit", c.err), st |-> c.st,
                     entries |-> entries, treeHash |-> t.hash, puts |-> t.puts + c.puts]
             ELSE [hash |-> c.hash, err |-> NoErr, st |-> c.st,
                   entries |-> [k \in {} |-> <<>>], treeHash |-> t.hash, puts |-> t.puts + c.puts]

\* Workspace.Commit with the bug of creating the commit first, from the hash of
\* the serialized tree, and writing the tree after it.
WorkspaceCommitFirst(st, entries, order, message, parentHashes, now, failTree, failCommit) ==
  LET ser == SerializeTree(entries, order)
      c == CreateCommit(st, FALSE, EncodeToString(<<Sum256(ser.data)>>), message, parentHashes,
                        now, failCommit)
      t == WriteObject(c.st, ser, failTree)
  IN IF c.err # NoErr
       THEN [hash |-> <<>>, err |-> Wrap("failed to create commit", c.err), st |-> c.st,
             entries |-> entries, treeHash |-> <<>>, puts |-> c.puts]
     ELSE IF t.err # NoErr
       THEN [hash |-> <<>>, err |-> Wrap("failed to write tree", t.err), st |-> t.st,
             entries |-> entries, treeHash |-> <<>>, puts |-> c.puts + t.puts]
     ELSE [hash |-> c.hash, err |-> NoErr, st |-> t.st,
           entries |-> entries, treeHash |-> t.hash, puts |-> c.puts + t.puts]

\* Workspace.Commit with the bug of going on to the commit when the tree write
\* has failed.
WorkspaceCommitUnchecked(st, entries, order, message, parentHashes, now, failTree, failCommit) ==
  LET t == WriteObject(st, SerializeTree(entries, order), failTree)
      c == CreateCommit(t.st, FALSE, t.hash, message, parentHashes, now, failCommit)
  IN IF c.err # NoErr
       THEN [hash |-> <<>>, err |-> Wrap("failed to create commit", c.err), st |-> c.st,
             entries |-> entries, treeHash |-> t.hash, puts |-> t.puts + c.puts]
     ELSE [hash |-> c.hash, err |-> NoErr, st |-> c.st,
           entries |-> entries, treeHash |-> t.hash, puts |-> t.puts + c.puts]

\* Workspace.Commit: write the staging tree, then create a commit that points to
\* it.  entries is the staging tree when the call returns.
WorkspaceCommit(st, entries, order, message, parentHashes, now, failTree, failCommit) ==
  LET t == WriteObject(st, SerializeTree(entries, order), failTree)
  IN IF t.err # NoErr
       THEN [hash |-> <<>>, err |-> Wrap("failed to write tree", t.err), st |-> t.st,
             entries |-> entries, treeHash |-> <<>>, puts |-> t.puts]
     ELSE LET c == CreateCommit(t.st, FALSE, t.hash, message, parentHashes, now, failCommit)
          IN IF c.err # NoErr
               THEN [hash |-> <<>>, err |-> Wrap("failed to create commit", c.err), st |-> c.st,
                     entries |-> entries, treeHash |-> t.hash, puts |-> t.puts + c.puts]
             ELSE [hash |-> c.hash, err |-> NoErr, st |-> c.st,
                   entries |-> entries, treeHash |-> t.hash, puts |-> t.puts + c.puts]

(* ------------------------- Reading objects back ------------------------ *)

\* The character with byte value n.
Chr(n) == Ascii[n - 31]

RECURSIVE ScanString(_, _, _)
\* json.Unmarshal of a string, from the character after its opening quote:
\* the string, and the position after its closing quote.
ScanString(b, i, acc) ==
  IF i > Len(b) THEN [ok |-> FALSE, s |-> acc, next |-> i]
  ELSE IF b[i] = Q THEN [ok |-> TRUE, s |-> acc, next |-> i + 1]
  ELSE IF b[i] # BSL THEN ScanString(b, i + 1, Append(acc, b[i]))
  ELSE IF i + 1 > Len(b) THEN [ok |-> FALSE, s |-> acc, next |-> i]
  ELSE IF b[i + 1] = "u"
    THEN IF i + 5 > Len(b) THEN [ok |-> FALSE, s |-> acc, next |-> i]
         ELSE ScanString(b, i + 6,
                         Append(acc, Chr((16 * HexVal(b[i + 4])) + HexVal(b[i + 5]))))
  ELSE ScanString(b, i + 2, Append(acc, b[i + 1]))

\* A JSON string at position i of b.
ParseString(b, i) ==
  IF i <= Len(b) /\ b[i] = Q THEN ScanString(b, i + 1, <<>>)
  ELSE [ok |-> FALSE, s |-> <<>>, next |-> i]

RECURSIVE ScanPairs(_, _, _)
\* The "name":"hash" pairs of a tree object from position i, in the order stored.
ScanPairs(b, i, acc) ==
  LET k == ParseString(b, i)
      v == ParseString(b, k.next + 1)
  IN IF ~k.ok \/ k.next > Len(b) \/ b[k.next] # ":" \/ ~v.ok \/ v.next > Len(b)
       THEN [ok |-> FALSE, pairs |-> acc]
     ELSE IF b[v.next] = "}"
       THEN [ok |-> v.next = Len(b), pairs |-> Append(acc, <<k.s, v.s>>)]
     ELSE IF b[v.next] = ","
       THEN ScanPairs(b, v.next + 1, Append(acc, <<k.s, v.s>>))
     ELSE [ok |-> FALSE, pairs |-> acc]

\* The entries of a stored tree object, in the order stored.
DecodeTree(b) ==
  IF Len(b) < 2 \/ b[1] # "{" THEN [ok |-> FALSE, pairs |-> <<>>]
  ELSE IF b = <<"{", "}">> THEN [ok |-> TRUE, pairs |-> <<>>]
  ELSE ScanPairs(b, 2, <<>>)

RECURSIVE ScanStrings(_, _, _)
\* The strings of a JSON array from position i, after its opening bracket.
ScanStrings(b, i, acc) ==
  IF i <= Len(b) /\ b[i] = "]" /\ acc = <<>> THEN [ok |-> TRUE, elems |-> acc, next |-> i + 1]
  ELSE LET e == ParseString(b, i)
       IN IF ~e.ok \/ e.next > Len(b) THEN [ok |-> FALSE, elems |-> acc, next |-> i]
          ELSE IF b[e.next] = "]" THEN [ok |-> TRUE, elems |-> Append(acc, e.s), next |-> e.next + 1]
          ELSE IF b[e.next] = "," THEN ScanStrings(b, e.next + 1, Append(acc, e.s))
          ELSE [ok |-> FALSE, elems |-> acc, next |-> i]

\* json.Unmarshal of a []string at position i of b: null gives a nil slice.
ParseStringSlice(b, i) ==
  IF StartsWith(b, i, <<"n", "u", "l", "l">>)
    THEN [ok |-> TRUE, slice |-> NilSlice, next |-> i + 4]
  ELSE IF i <= Len(b) /\ b[i] = "["
    THEN LET r == ScanStrings(b, i + 1, <<>>)
         IN [ok |-> r.ok, slice |-> Slice(r.elems), next |-> r.next]
  ELSE [ok |-> FALSE, slice |-> NilSlice, next |-> i]

\* json.Unmarshal(rawCommit, &decodedCommit), as the tests read a commit back.
DecodeCommit(b) ==
  LET kTree == <<"{", Q, "t", "r", "e", "e", Q, ":">>
      kParents == <<",", Q, "p", "a", "r", "e", "n", "t", "s", Q, ":">>
      kMessage == <<",", Q, "m", "e", "s", "s", "a", "g", "e", Q, ":">>
      kTime == <<",", Q, "t", "i", "m", "e", "s", "t", "a", "m", "p", Q, ":">>
      t == ParseString(b, 1 + Len(kTree))
      p == ParseStringSlice(b, t.next + Len(kParents))
      m == ParseString(b, p.next + Len(kMessage))
      ts == ParseString(b, m.next + Len(kTime))
  IN [ok |-> /\ StartsWith(b, 1, kTree) /\ t.ok
             /\ StartsWith(b, t.next, kParents) /\ p.ok
             /\ StartsWith(b, p.next, kMessage) /\ m.ok
             /\ StartsWith(b, m.next, kTime) /\ ts.ok
             /\ ts.next = Len(b) /\ b[ts.next] = "}",
      TreeHash |-> t.s, ParentHashes |-> p.slice, Message |-> m.s, Timestamp |-> ts.s]

(* ------------------------------- Inputs -------------------------------- *)

\* How many times a run may reach the body of CreateCommit, and how far the clock runs.
MaxCommits == 1

MaxWsCommits == 1

MaxHistory == 2

MaxClock == 1

\* How many entries are inserted into one Tree.
MaxInserts == 3

ObjA1 == [ID |-> <<"A">>, Data |-> <<"x">>, ptr |-> 1, bad |-> FALSE]

\* A second value with the content of ObjA1.
ObjA2 == [ID |-> <<"A">>, Data |-> <<"x">>, ptr |-> 2, bad |-> FALSE]

ObjB == [ID |-> <<"B">>, Data |-> <<"<", Q>>, ptr |-> 1, bad |-> FALSE]

\* An Object whose Serialize fails.
ObjBad == [ID |-> <<"C">>, Data |-> <<>>, ptr |-> 1, bad |-> TRUE]

Objects == {ObjA1, ObjA2, ObjB, ObjBad}

\* Objects a caller stages: one value for each content, and the failing one.
AddObjects == {ObjA1, ObjB, ObjBad}

\* Entry names; the second sorts first byte-wise, and after the first once escaped.
Names == {<<"B">>, <<Q, "z">>}

Messages == {<<"m">>, <<"<">>}

P1 == <<"p", "1">>

P2 == <<"p", "2">>

\* Parent lists a caller passes: none, empty, unsorted, and with a duplicate.
ParentLists ==
  {NilSlice, Slice(<<>>), Slice(<<P2, P1>>), Slice(<<P1, P2, P1>>)}

\* Names of tree entries: byte-wise the third sorts first and the first is a
\* prefix of the second; once JSON-escaped the third would sort last.
TreeNames == {<<"B">>, <<"B", "a">>, <<Q>>}

\* The hash string an entry maps its name to ("hash_of_file" in the test).
EntryHash(name) == <<"h", "_">> \o name

\* A well-formed hash nothing is ever stored under: 64 times "a".
UnknownHash == [i \in 1..64 |-> "a"]

\* hex.EncodeToString(sha256.Sum256(data)), as TestObjectStore computes it.
HashOf(data) == EncodeToString(<<Sum256(data)>>)

(* -------------------------------- State -------------------------------- *)

VARIABLES
  storage,        \* the backend: key (raw digest bytes) -> stored bytes
  tree,           \* the workspace's staging tree: name -> hash
  clock,          \* what time.Now() returns
  last,           \* the last call: its arguments and what it returned
  written,        \* every successful WriteObject so far: object, hash, serialization
  latest,         \* name -> the object of the last successful Add under it
  since,          \* latest, for the Adds after the last successful Commit
  committedTree,  \* the tree hash of the last successful Workspace.Commit
  nCommits,       \* how many times the body of CreateCommit was reached
  trees,          \* two Tree values built entry by entry: entries, and the names as inserted
  out             \* what Serialize and WriteObject returned for the two, once called

VARIABLES
  procs,          \* concurrent calls on the store: each call's position and locals
  threads,        \* concurrent calls on the workspace: each call's position and locals
  mutex,          \* the callers' lock around Add and Commit: "none" when they use none
  completed       \* name -> hash, for the Adds that have returned without an error

\* The state of the concurrent calls.
cvars == <<procs, threads, mutex, completed>>

vars == <<storage, tree, clock, last, written, latest, since, committedTree, nCommits, trees, out,
          cvars>>

EmptyMap == [k \in {} |-> <<>>]

NoCall ==
  [op |-> "none", obj |-> NoObj, name |-> <<>>, msg |-> <<>>, parents |-> NilSlice,
   arg |-> <<>>, fault |-> "none", hash |-> <<>>, data |-> <<>>, err |-> NoErr,
   treeHash |-> <<>>, puts |-> 0]

\* The goroutines that call WriteObject concurrently, and the one that reads.
Writers == {"w1", "w2"}

Procs == Writers \cup {"r"}

\* A call not yet made: pc is the position in the function, the rest its
\* arguments, locals and return values.
Idle ==
  [pc |-> "idle", obj |-> NoObj, fails |-> FALSE, arg |-> <<>>, data |-> <<>>, key |-> <<>>,
   hashHex |-> <<>>, hash |-> <<>>, err |-> NoErr]

\* The goroutines that call ws.Add concurrently, and the one that calls ws.Commit.
Adders == {"a1", "a2"}

Threads == Adders \cup {"c"}

\* A workspace call not yet made: pc is the position in Add or Commit, the rest
\* the arguments, locals and return values; before is the staging tree of the
\* Adds that had returned when the Commit began, stored the keys the backend held
\* when the Commit put its tree.
IdleCall ==
  [pc |-> "idle", name |-> <<>>, obj |-> NoObj, fault |-> "none", keys |-> <<>>, data |-> <<>>,
   treeHash |-> <<>>, hash |-> <<>>, err |-> NoErr, before |-> EmptyMap, stored |-> {}]

\* NewObjectStore(NewMockStorage()) and NewWorkspace(store).
Init ==
  /\ storage = EmptyMap
  /\ tree = EmptyMap
  /\ clock = 0
  /\ last = NoCall
  /\ written = {}
  /\ latest = EmptyMap
  /\ since = EmptyMap
  /\ committedTree = <<>>
  /\ nCommits = 0
  /\ trees = [i \in 1..2 |-> [entries |-> EmptyMap, log |-> <<>>]]
  /\ out = <<>>
  /\ procs = [p \in Procs |-> Idle]
  /\ threads = [t \in Threads |-> IdleCall]
  /\ mutex = "none"
  /\ completed = EmptyMap

Wrote(obj, hash, data) == [obj |-> obj, hash |-> hash, data |-> data]

\* time.Now() moves on.
Tick ==
  /\ clock < MaxClock
  /\ clock' = clock + 1
  /\ UNCHANGED <<storage, tree, last, written, latest, since, committedTree, nCommits, trees, out, cvars>>

\* store.WriteObject(obj) on a user record, for obj among objs.
DoWriteObject(objs) ==
  \E obj \in objs, fails \in BOOLEAN :
    LET ser == SerializeObject(obj)
        w == WriteObject(storage, ser, fails)
    IN /\ storage' = w.st
       /\ last' = [NoCall EXCEPT !.op = "WriteObject", !.obj = obj,
                                 !.fault = IF fails THEN "put" ELSE "none",
                                 !.hash = w.hash, !.err = w.err, !.puts = w.puts]
       /\ written' = IF w.err = NoErr THEN written \cup {Wrote(obj, w.hash, ser.data)} ELSE written
       /\ UNCHANGED <<tree, clock, latest, since, committedTree, nCommits, trees, out, cvars>>

\* The hashes a caller may ask for: the one returned last, the committed tree's,
\* those of the records, one nothing is stored under, and three that are no
\* 64-digit hex strings.
ReadArgs ==
  ({last.hash, committedTree} \ {<<>>})
  \cup {HashOf(SerializeObject(o).data) : o \in {x \in Objects : ~x.bad}}
  \cup {UnknownHash, <<"a", "b", "c">>, <<"z", "z">>, <<"a", "b">>}

\* store.ReadRawObject(hash)
DoReadRawObject ==
  \E h \in ReadArgs :
    LET r == ReadRawObject(storage, h)
    IN /\ last' = [NoCall EXCEPT !.op = "ReadRawObject", !.arg = h, !.data = r.data, !.err = r.err]
       /\ UNCHANGED <<storage, tree, clock, written, latest, since, committedTree, nCommits, trees, out, cvars>>

\* ws.Add(name, obj), for name among names and obj among objs; putFails holds
\* the outcomes of the backend's Put (TRUE: it fails).
DoAdd(names, objs, putFails) ==
  \E name \in names, obj \in objs, fails \in putFails :
    LET a == WorkspaceAdd(storage, tree, name, obj, fails)
        ok == a.err = NoErr
    IN /\ storage' = a.st
       /\ tree' = a.entries
       /\ last' = [NoCall EXCEPT !.op = "Add", !.obj = obj, !.name = name,
                                 !.fault = IF fails THEN "put" ELSE "none",
                                 !.hash = a.hash, !.err = a.err, !.puts = a.puts]
       /\ written' = IF ok THEN written \cup {Wrote(obj, a.hash, SerializeObject(obj).data)}
                     ELSE written
       /\ latest' = IF ok THEN MapPut(latest, name, obj) ELSE latest
       /\ since' = IF ok THEN MapPut(since, name, obj) ELSE since
       /\ UNCHANGED <<clock, committedTree, nCommits, trees, out, cvars>>

\* Which backend Put of a Workspace.Commit fails.
CommitFaults == {"none", "tree", "commit"}

\* ws.Commit(message, parentHashes), for message among msgs, the parent list
\* among plists and the failing Put among faults, while CreateCommit was reached
\* fewer than max times.
DoCommit(msgs, plists, faults, max) ==
  /\ nCommits < max
  /\ \E msg \in msgs, parents \in plists, fault \in faults,
        order \in RangeOrders(DOMAIN tree) :
       LET c == WorkspaceCommit(storage, tree, order, msg, parents, clock,
                                fault = "tree", fault = "commit")
           ok == c.err = NoErr
           treeData == SerializeTree(tree, order).data
           commitData == SerializeCommit([TreeHash |-> c.treeHash, ParentHashes |-> parents,
                                          Message |-> msg, Timestamp |-> clock]).data
       IN /\ storage' = c.st
          /\ last' = [NoCall EXCEPT !.op = "Commit", !.msg = msg, !.parents = parents,
                                    !.fault = fault, !.hash = c.hash, !.err = c.err,
                                    !.treeHash = c.treeHash, !.puts = c.puts]
          /\ written' = written
                \cup (IF c.treeHash # <<>> THEN {Wrote(NoObj, c.treeHash, treeData)} ELSE {})
                \cup (IF ok THEN {Wrote(NoObj, c.hash, commitData)} ELSE {})
          /\ since' = IF ok THEN EmptyMap ELSE since
          /\ committedTree' = IF ok THEN c.treeHash ELSE committedTree
          /\ tree' = c.entries
          /\ nCommits' = IF fault = "tree" THEN nCommits ELSE nCommits + 1
          /\ UNCHANGED <<clock, latest, trees, out, cvars>>

\* ws, err = NewWorkspace(store): on success the caller goes on with the new
\* workspace, on an error it keeps the one it had.  No backend call is made.
DoNewWorkspace ==
  \E storeNil \in BOOLEAN :
    LET n == NewWorkspace(storeNil)
    IN /\ tree' = IF n.ok THEN n.entries ELSE tree
       /\ last' = [NoCall EXCEPT !.op = "NewWorkspace",
                                 !.fault = IF storeNil THEN "nil" ELSE "none",
                                 !.err = n.err]
       /\ latest' = IF n.ok THEN EmptyMap ELSE latest
       /\ since' = IF n.ok THEN EmptyMap ELSE since
       /\ committedTree' = IF n.ok THEN <<>> ELSE committedTree
       /\ UNCHANGED <<storage, clock, written, nCommits, trees, out, cvars>>

\* Tree hashes a caller passes to CreateCommit: any string, or a committed tree's hash.
TreeHashArgs == {<<"t", "1">>} \cup ({committedTree} \ {<<>>})

\* CreateCommit(store, treeHash, message, parentHashes), for message among msgs
\* and the parent list among plists, while CreateCommit was reached fewer than max times.
DoCreateCommit(msgs, plists, max) ==
  /\ nCommits < max
  /\ \E storeNil \in BOOLEAN, treeHash \in TreeHashArgs, msg \in msgs,
        parents \in plists, fails \in BOOLEAN :
       LET c == CreateCommit(storage, storeNil, treeHash, msg, parents, clock, fails)
           ok == c.err = NoErr
           commitData == SerializeCommit([TreeHash |-> treeHash, ParentHashes |-> parents,
                                          Message |-> msg, Timestamp |-> clock]).data
       IN /\ storage' = c.st
          /\ last' = [NoCall EXCEPT !.op = "CreateCommit", !.msg = msg, !.parents = parents,
                                    !.arg = treeHash,
                                    !.fault = IF storeNil THEN "nil"
                                              ELSE IF fails THEN "put" ELSE "none",
                                    !.hash = c.hash, !.err = c.err, !.puts = c.puts]
          /\ written' = IF ok THEN written \cup {Wrote(NoObj, c.hash, commitData)} ELSE written
          /\ nCommits' = IF storeNil THEN nCommits ELSE nCommits + 1
          /\ UNCHANGED <<tree, clock, latest, since, committedTree, trees, out, cvars>>

\* trees[i].Entries[name] = hash, on a Tree made by NewTree().
TreeInsert ==
  /\ out = <<>>
  /\ \E i \in 1..2, name \in TreeNames :
       /\ Len(trees[i].log) < MaxInserts
       /\ trees' = [trees EXCEPT ![i] = [entries |-> MapPut(@.entries, name, EntryHash(name)),
                                         log |-> Append(@.log, name)]]
  /\ UNCHANGED <<storage, tree, clock, last, written, latest, since, committedTree, nCommits, out, cvars>>

\* Serialize both trees and write both to the store; each range over a map
\* visits the keys in an order of its own.
TreeSerialize ==
  /\ out = <<>>
  /\ \E o1 \in RangeOrders(DOMAIN trees[1].entries), o2 \in RangeOrders(DOMAIN trees[2].entries) :
       LET s1 == SerializeTree(trees[1].entries, o1)
           s2 == SerializeTree(trees[2].entries, o2)
           w1 == WriteObject(storage, s1, FALSE)
           w2 == WriteObject(w1.st, s2, FALSE)
       IN /\ out' = <<[data |-> s1.data, hash |-> w1.hash], [data |-> s2.data, hash |-> w2.hash]>>
          /\ storage' = w2.st
          /\ written' = written \cup {Wrote(NoObj, w1.hash, s1.data), Wrote(NoObj, w2.hash, s2.data)}
  /\ UNCHANGED <<tree, clock, last, latest, since, committedTree, nCommits, trees, cvars>>

(* --------------------------- Concurrent calls -------------------------- *)

\* What a step of a concurrent store call leaves alone, the backend apart.
wsvars == <<tree, clock, last, written, latest, since, committedTree, nCommits, trees, out,
            threads, mutex, completed>>

\* What a step of a concurrent workspace call leaves alone.
apivars == <<clock, last, written, latest, since, committedTree, nCommits, trees, out, procs>>

\* The hashes the concurrent reader may ask for.
ConcReadArgs ==
  {HashOf(SerializeObject(ObjA1).data), HashOf(SerializeObject(ObjB).data), <<"z", "z">>}

\* WriteObject, called by goroutine p: data, err := obj.Serialize(), and the
\* return when it failed.
WSerialize(p) ==
  /\ procs[p].pc = "idle"
  /\ \E obj \in Objects, fails \in BOOLEAN :
       LET ser == SerializeObject(obj)
       IN procs' = [procs EXCEPT ![p] =
            IF ser.err # NoErr
              THEN [@ EXCEPT !.pc = "done", !.obj = obj, !.fails = fails,
                             !.err = Wrap("failed to serialize object", ser.err)]
            ELSE [@ EXCEPT !.pc = "hash", !.obj = obj, !.fails = fails, !.data = ser.data]]
  /\ UNCHANGED <<storage, wsvars>>

\* WriteObject with the bug of hashing the data together with the name of the
\* goroutine that writes.
WHashSalted(p) ==
  /\ procs[p].pc = "hash"
  /\ procs' = [procs EXCEPT ![p] =
       [@ EXCEPT !.pc = "put", !.key = <<Sum256(procs[p].data \o <<p>>)>>,
                 !.hashHex = EncodeToString(<<Sum256(procs[p].data \o <<p>>)>>)]]
  /\ UNCHANGED <<storage, wsvars>>

\* WriteObject by p: hashBytes := sha256.Sum256(data); hashHex := hex.EncodeToString(...)
WHash(p) ==
  /\ procs[p].pc = "hash"
  /\ procs' = [procs EXCEPT ![p] =
       [@ EXCEPT !.pc = "put", !.key = <<Sum256(procs[p].data)>>,
                 !.hashHex = EncodeToString(<<Sum256(procs[p].data)>>)]]
  /\ UNCHANGED <<storage, wsvars>>

\* WriteObject by p: s.storage.Put(hashBytes[:], data), one atomic operation of
\* the backend, and the return.
WPut(p) ==
  /\ procs[p].pc = "put"
  /\ LET r == StoragePut(storage, procs[p].key, procs[p].data, procs[p].fails)
     IN /\ storage' = r.st
        /\ procs' = [procs EXCEPT ![p] =
             IF r.err # NoErr
               THEN [@ EXCEPT !.pc = "done", !.err = Wrap("failed to store object", r.err)]
             ELSE [@ EXCEPT !.pc = "done", !.hash = procs[p].hashHex]]
  /\ UNCHANGED wsvars

\* ReadRawObject(hash), called by the reading goroutine: hex.DecodeString(hash),
\* and the return when it failed.
RDecode ==
  /\ procs["r"].pc = "idle"
  /\ \E h \in ConcReadArgs :
       LET dec == DecodeString(h)
       IN procs' = [procs EXCEPT !["r"] =
            IF dec.err # NoErr
              THEN [@ EXCEPT !.pc = "done", !.arg = h, !.err = Wrap("failed to decode hash", dec.err)]
            ELSE [@ EXCEPT !.pc = "get", !.arg = h, !.key = dec.bytes]]
  /\ UNCHANGED <<storage, wsvars>>

\* ReadRawObject by the reader: s.storage.Get(hashBytes), one atomic operation
\* of the backend, and the return.
RGet ==
  /\ procs["r"].pc = "get"
  /\ LET g == StorageGet(storage, procs["r"].key)
     IN procs' = [procs EXCEPT !["r"] =
          IF g.err # NoErr
            THEN [@ EXCEPT !.pc = "done", !.err = Wrap("failed to read object", g.err)]
          ELSE [@ EXCEPT !.pc = "done", !.data = g.value]]
  /\ UNCHANGED <<storage, wsvars>>

\* The callers agree to run every Add and Commit under one lock.
UseLock ==
  /\ mutex = "none"
  /\ \A t \in Threads : threads[t].pc = "idle"
  /\ mutex' = "free"
  /\ UNCHANGED <<storage, tree, threads, completed, apivars>>

\* The lock as thread t finds it when its call begins: none is used, or it is free.
CanEnter == mutex \in {"none", "free"}

\* The lock once t holds it, and once t has let go of it.
Held(t) == IF mutex = "none" THEN "none" ELSE t

Released == IF mutex = "none" THEN "none" ELSE "free"

\* Every goroutine dies: the Go runtime has found a map write concurrent with
\* another access of the map (fatal error: concurrent map writes / iteration).
Crash == [t \in Threads |-> [threads[t] EXCEPT !.pc = "crashed"]]

\* Workspace.Add with the bug of returning once the object is written, the
\* staging tree being updated by a goroutine of its own.
AWriteAsync(p) ==
  /\ threads[p].pc = "idle"
  /\ CanEnter
  /\ \E name \in Names, obj \in AddObjects :
       LET w == WriteObject(storage, SerializeObject(obj), FALSE)
       IN /\ storage' = w.st
          /\ threads' = [threads EXCEPT ![p] =
               IF w.err # NoErr
                 THEN [@ EXCEPT !.pc = "done", !.name = name, !.obj = obj,
                         !.err = Wrap("failed to write object '" \o Cat(name) \o "'", w.err)]
               ELSE [@ EXCEPT !.pc = "entry", !.name = name, !.obj = obj, !.hash = w.hash]]
          /\ mutex' = mutex
  /\ UNCHANGED <<tree, completed, apivars>>

\* ws.Add(name, obj) by goroutine p: hash, err := w.store.WriteObject(obj), and
\* the return when it failed.
AWrite(p) ==
  /\ threads[p].pc = "idle"
  /\ CanEnter
  /\ \E name \in Names, obj \in AddObjects :
       LET w == WriteObject(storage, SerializeObject(obj), FALSE)
       IN /\ storage' = w.st
          /\ threads' = [threads EXCEPT ![p] =
               IF w.err # NoErr
                 THEN [@ EXCEPT !.pc = "done", !.name = name, !.obj = obj,
                         !.err = Wrap("failed to write object '" \o Cat(name) \o "'", w.err)]
               ELSE [@ EXCEPT !.pc = "entry", !.name = name, !.obj = obj, !.hash = w.hash]]
          /\ mutex' = IF w.err # NoErr THEN mutex ELSE Held(p)
  /\ UNCHANGED <<tree, completed, apivars>>

\* The map write of p runs while another goroutine writes or ranges over the map.
Racing(p) ==
  \/ threads["c"].pc = "ranging"
  \/ \E q \in Adders \ {p} : threads[q].pc = "entry"

\* ws.Add by p: w.tree.Entries[name] = hash, and the return.  A write that races
\* with another access of the map either takes effect or ends the program.
AEntry(p) ==
  /\ threads[p].pc = "entry"
  /\ \/ /\ tree' = MapPut(tree, threads[p].name, threads[p].hash)
        /\ threads' = [threads EXCEPT ![p] = [@ EXCEPT !.pc = "done"]]
        /\ completed' = MapPut(completed, threads[p].name, threads[p].hash)
        /\ mutex' = IF mutex = p THEN "free" ELSE mutex
     \/ /\ Racing(p)
        /\ threads' = Crash
        /\ UNCHANGED <<tree, completed, mutex>>
  /\ UNCHANGED <<storage, apivars>>

\* ws.Commit(message, parents) by the committing goroutine, in Tree.Serialize:
\* the range over the map that collects the keys.
CRange ==
  /\ threads["c"].pc = "idle"
  /\ CanEnter
  /\ \E fault \in CommitFaults, order \in RangeOrders(DOMAIN tree) :
       threads' = [threads EXCEPT !["c"] =
         [@ EXCEPT !.pc = "ranging", !.fault = fault, !.keys = order, !.before = completed]]
  /\ mutex' = Held("c")
  /\ UNCHANGED <<storage, tree, completed, apivars>>

\* Commit, in Tree.Serialize: the keys are sorted and each key is written with
\* the value the map holds for it now.
CSerialize ==
  /\ threads["c"].pc = "ranging"
  /\ threads' = [threads EXCEPT !["c"] =
       [@ EXCEPT !.pc = "treeput", !.data = SerializeTree(tree, threads["c"].keys).data]]
  /\ UNCHANGED <<storage, tree, mutex, completed, apivars>>

\* Commit: treeHash, err := w.store.WriteObject(w.tree), past Serialize, and the
\* return when it failed.
CTreePut ==
  /\ threads["c"].pc = "treeput"
  /\ LET t == WriteObject(storage, [data |-> threads["c"].data, err |-> NoErr],
                          threads["c"].fault = "tree")
     IN /\ storage' = t.st
        /\ threads' = [threads EXCEPT !["c"] =
             IF t.err # NoErr
               THEN [@ EXCEPT !.pc = "done", !.err = Wrap("failed to write tree", t.err),
                              !.stored = DOMAIN storage]
             ELSE [@ EXCEPT !.pc = "commit", !.treeHash = t.hash, !.stored = DOMAIN storage]]
        /\ mutex' = IF t.err # NoErr THEN Released ELSE mutex
  /\ UNCHANGED <<tree, completed, apivars>>

\* Commit: commitHash, err := CreateCommit(w.store, treeHash, message, parentHashes),
\* and the return.
CCommit ==
  /\ threads["c"].pc = "commit"
  /\ LET c == CreateCommit(storage, FALSE, threads["c"].treeHash, <<"m">>, Slice(<<>>), clock,
                           threads["c"].fault = "commit")
     IN /\ storage' = c.st
        /\ threads' = [threads EXCEPT !["c"] =
             IF c.err # NoErr
               THEN [@ EXCEPT !.pc = "done", !.err = Wrap("failed to create commit", c.err)]
             ELSE [@ EXCEPT !.pc = "done", !.hash = c.hash]]
        /\ mutex' = Released
  /\ UNCHANGED <<tree, completed, apivars>>

(* ---------------------------- Specifications --------------------------- *)

\* The whole API on one store and one workspace.
Next ==
  \/ DoWriteObject(Objects)
  \/ DoReadRawObject
  \/ DoAdd({<<"B">>}, AddObjects, BOOLEAN)
  \/ DoCommit({<<"m">>}, {Slice(<<>>)}, CommitFaults, MaxCommits)
  \/ DoCreateCommit({<<"m">>}, {Slice(<<>>)}, MaxCommits)

Spec == Init /\ [][Next]_vars

\* The workspace: staging and committing.
NextWs ==
  \/ DoAdd(Names, AddObjects, BOOLEAN)
  \/ DoCommit(Messages, {Slice(<<>>)}, CommitFaults, MaxWsCommits)

SpecWs == Init /\ [][NextWs]_vars

\* The workspace over several commits; an Add may fail to serialize its object
\* and a Commit may fail to put its tree.
NextHistory ==
  \/ DoAdd(Names, AddObjects, {FALSE})
  \/ DoCommit({<<"m">>}, {Slice(<<>>)}, {"none", "tree"}, MaxHistory)

SpecHistory == Init /\ [][NextHistory]_vars

\* Commit construction.
NextCommit ==
  \/ Tick
  \/ DoCreateCommit(Messages, ParentLists, MaxCommits)
  \/ DoReadRawObject

SpecCommit == Init /\ [][NextCommit]_vars

\* Tree.Serialize on trees built in every order.
NextTree ==
  \/ TreeInsert
  \/ TreeSerialize

SpecTree == Init /\ [][NextTree]_vars

\* Every public operation, on one store and the workspace the caller holds.
NextApi ==
  \/ DoWriteObject({ObjA1, ObjBad})
  \/ DoReadRawObject
  \/ DoNewWorkspace
  \/ DoAdd({<<"B">>}, AddObjects, BOOLEAN)
  \/ DoCommit({<<"m">>}, {Slice(<<>>)}, CommitFaults, MaxCommits)
  \/ DoCreateCommit({<<"m">>}, {Slice(<<>>)}, MaxCommits)

SpecApi == Init /\ [][NextApi]_vars

\* Two goroutines that each call WriteObject once and one that calls
\* ReadRawObject once, on a backend whose Put and Get are atomic.
NextConc ==
  \/ \E p \in Writers : WSerialize(p)
  \/ \E p \in Writers : WHash(p)
  \/ \E p \in Writers : WPut(p)
  \/ RDecode
  \/ RGet

SpecConc == Init /\ [][NextConc]_vars

\* Two goroutines that each call ws.Add once and one that calls ws.Commit once,
\* on one workspace, with no lock or all under one lock.
NextRace ==
  \/ UseLock
  \/ \E p \in Adders : AWrite(p)
  \/ \E p \in Adders : AEntry(p)
  \/ CRange
  \/ CSerialize
  \/ CTreePut
  \/ CCommit

SpecRace == Init /\ [][NextRace]_vars

(* -------------------------------- Claims ------------------------------- *)

OkRead(data) == [data |-> data, err |-> NoErr]

\* C1 (round trip): every hash a successful WriteObject has returned reads back,
\* through ReadRawObject, as the serialization of the object written, in every
\* state reached by further WriteObject, Add, Commit and CreateCommit calls; and a
\* ReadRawObject call made with such a hash returned exactly that.
C1_RoundTrip ==
  /\ \A w \in written : ReadRawObject(storage, w.hash) = OkRead(w.data)
  /\ last.op = "ReadRawObject" =>
       \A w \in written : w.hash = last.arg => last.err = NoErr /\ last.data = w.data

\* A record written by WriteObject alone (ObjA2 is never staged) was read back
\* by a ReadRawObject call, with an Add and a Commit behind it.
C1_Witness ==
  /\ last.op = "ReadRawObject"
  /\ last.err = NoErr
  /\ last.arg = HashOf(SerializeObject(ObjA2).data)
  /\ last.data = SerializeObject(ObjA2).data
  /\ Wrote(ObjA2, last.arg, last.data) \in written
  /\ ObjA1 \notin {w.obj : w \in written}
  /\ tree # EmptyMap
  /\ committedTree # <<>>

\* C2 (determinism): the hash WriteObject returned for a record is the hex
\* encoding of the digest of its serialization, and any two successful writes
\* of the same serialized bytes, made at whatever states of the store, returned
\* the same hash.
C2_Determinism ==
  /\ \A w \in written : w.hash = HashOf(w.data)
  /\ \A v, w \in written :
       (v.obj # NoObj /\ w.obj # NoObj /\ SerializeObject(v.obj) = SerializeObject(w.obj))
         => v.hash = w.hash

\* Two distinct values of one content were both written, the second into a
\* store that holds other objects as well.
C2_Witness ==
  /\ last.op = "WriteObject"
  /\ last.err = NoErr
  /\ {ObjA1, ObjA2} \subseteq {w.obj : w \in written}
  /\ Cardinality(DOMAIN storage) >= 3

\* The names of decoded tree entries are in strictly ascending byte-wise order.
Ascending(pairs) ==
  \A i \in 1..(Len(pairs) - 1) : LessString(pairs[i][1], pairs[i + 1][1])

\* The name/hash pairs of a mapping.
PairsOf(entries) == {<<n, entries[n]>> : n \in DOMAIN entries}

\* The set of the elements of a sequence.
Range(seq) == {seq[i] : i \in 1..Len(seq)}

\* C3 (order independence): whatever the order in which the entries were
\* inserted and whatever the order in which the map is ranged, Tree.Serialize
\* returns bytes that decode to exactly the entries of the mapping, once each,
\* in strictly ascending byte-wise order of their names; and two trees with
\* equal content get equal bytes from Serialize and equal hashes from WriteObject.
C3_OrderIndependence ==
  out # <<>> =>
    /\ \A i \in 1..2 :
         LET d == DecodeTree(out[i].data)
         IN /\ d.ok
            /\ Ascending(d.pairs)
            /\ Len(d.pairs) = Cardinality(DOMAIN trees[i].entries)
            /\ Range(d.pairs) = PairsOf(trees[i].entries)
    /\ trees[1].entries = trees[2].entries
         => out[1].data = out[2].data /\ out[1].hash = out[2].hash

\* Two trees of the same three entries, inserted in different orders, were
\* serialized and written; the name that sorts first byte-wise is the quote.
C3_Witness ==
  /\ out # <<>>
  /\ trees[1].entries = trees[2].entries
  /\ Cardinality(DOMAIN trees[1].entries) = 3
  /\ trees[1].log = <<<<"B">>, <<"B", "a">>, <<Q>>>>
  /\ trees[2].log = <<<<Q>>, <<"B", "a">>, <<"B">>>>
  /\ out[1].hash = out[2].hash
  /\ DecodeTree(out[1].data).pairs[1][1] = <<Q>>

\* C4 (workspace snapshot content): when a Commit on the workspace has
\* succeeded, the commit read back under the returned hash carries the message
\* passed, and its tree hash reads back as a tree object with exactly one entry
\* for each name added so far, mapping the name to the hash of the record most
\* recently added under it; with no Add at all the tree object is {}.
C4_SnapshotContent ==
  (last.op = "Commit" /\ last.err = NoErr) =>
    LET rc == ReadRawObject(storage, last.hash)
        c == DecodeCommit(rc.data)
        rt == ReadRawObject(storage, c.TreeHash)
        t == DecodeTree(rt.data)
    IN /\ rc.err = NoErr
       /\ c.ok
       /\ c.Message = last.msg
       /\ rt.err = NoErr
       /\ t.ok
       /\ Len(t.pairs) = Cardinality(DOMAIN latest)
       /\ Range(t.pairs) = {<<n, HashOf(SerializeObject(latest[n]).data)>> : n \in DOMAIN latest}
       /\ (latest = EmptyMap => rt.data = <<"{", "}">>)

\* A Commit with a message that needs escaping succeeded after both names were
\* added, with a record of other content added earlier and overwritten.
C4_Witness ==
  /\ last.op = "Commit"
  /\ last.err = NoErr
  /\ last.msg = <<"<">>
  /\ DOMAIN latest = Names
  /\ \A n \in Names : latest[n] = ObjB
  /\ ObjA1 \in {w.obj : w \in written}
  /\ DOMAIN tree = Names

\* The entries of the tree object stored under hash h, in the order stored.
TreeAt(st, h) == DecodeTree(ReadRawObject(st, h).data).pairs

\* C5 (cumulative staging): no Add or Commit removes a name from the staging
\* tree; a successful Commit leaves the staging tree as it was; and the tree of
\* a commit that follows an earlier successful commit holds every entry of the
\* earlier commit's tree whose name was not added again in between, the entries
\* added in between, and nothing else.
C5_CumulativeStaging ==
  [][ /\ \A n \in DOMAIN tree : n \in DOMAIN tree'
      /\ (last'.op = "Commit" /\ last'.err = NoErr) =>
            /\ tree' = tree
            /\ committedTree # <<>> =>
                  LET old == TreeAt(storage', committedTree)
                      new == TreeAt(storage', committedTree')
                  IN /\ \A i \in 1..Len(old) :
                          old[i][1] \notin DOMAIN since => old[i] \in Range(new)
                     /\ \A n \in DOMAIN since :
                          <<n, HashOf(SerializeObject(since[n]).data)>> \in Range(new)
                     /\ \A j \in 1..Len(new) :
                          new[j] \in Range(old) \/ new[j][1] \in DOMAIN since
    ]_vars

\* A second Commit succeeded; the first commit's tree had one entry, a second
\* name was added in between, and the second commit's tree has both.
C5_Witness ==
  /\ last.op = "Commit"
  /\ last.err = NoErr
  /\ since = EmptyMap
  /\ Len(TreeAt(storage, committedTree)) = 2
  /\ DOMAIN tree = Names
  /\ \E w \in written :
       /\ w.obj = NoObj
       /\ w.hash # committedTree
       /\ DecodeTree(w.data).ok
       /\ Len(DecodeTree(w.data).pairs) = 1
       /\ \E v \in written :
            /\ v.obj = NoObj
            /\ DecodeCommit(v.data).ok
            /\ DecodeCommit(v.data).TreeHash = w.hash

\* C6 (immutability of persisted objects): no WriteObject, ReadRawObject, Add,
\* Commit or CreateCommit call removes a key from the backend or changes the
\* bytes under it, so every tree and commit object written so far reads back
\* after the call as it did before; Adds after a Commit leave the committed
\* tree object as it was.
C6_Immutability ==
  [][ /\ \A k \in DOMAIN storage : k \in DOMAIN storage' /\ storage'[k] = storage[k]
      /\ \A w \in written :
           w.obj = NoObj => ReadRawObject(storage', w.hash) = ReadRawObject(storage, w.hash)
      /\ committedTree # <<>> =>
           ReadRawObject(storage', committedTree) = ReadRawObject(storage, committedTree)
    ]_vars

\* After a Commit, an Add has replaced the entry of the staging tree; the tree
\* object of the commit is still stored, and is no longer the staging tree's.
C6_Witness ==
  /\ last.op = "Add"
  /\ last.err = NoErr
  /\ committedTree # <<>>
  /\ ReadRawObject(storage, committedTree).err = NoErr
  /\ TreeAt(storage, committedTree) # <<>>
  /\ Range(TreeAt(storage, committedTree)) # PairsOf(tree)
  /\ \E w \in written : w.obj = NoObj /\ DecodeCommit(w.data).ok
                         /\ DecodeCommit(w.data).TreeHash = committedTree

\* The content of record o has been written before.
WrittenBefore(o) ==
  \E w \in written : w.obj # NoObj /\ SerializeObject(w.obj) = SerializeObject(o)

\* C7 (idempotent content): a successful WriteObject of a record whose content
\* has been written before returns the hash every earlier write of that content
\* returned, and leaves the backend with the keys and the bytes it had.
C7_Idempotent ==
  [][ (last'.op = "WriteObject" /\ last'.err = NoErr /\ WrittenBefore(last'.obj)) =>
        /\ storage' = storage
        /\ \A w \in written :
             (w.obj # NoObj /\ SerializeObject(w.obj) = SerializeObject(last'.obj))
               => last'.hash = w.hash
    ]_vars

\* A record with the content of one written earlier was written, into a store
\* that holds a record of other content as well.
C7_Witness ==
  /\ last.op = "WriteObject"
  /\ last.err = NoErr
  /\ last.obj = ObjA2
  /\ last.hash = HashOf(SerializeObject(ObjA1).data)
  /\ Wrote(ObjA1, last.hash, SerializeObject(ObjA1).data) \in written
  /\ Wrote(ObjB, HashOf(SerializeObject(ObjB).data), SerializeObject(ObjB).data) \in written

RECURSIVE StrLen(_)
\* len(s) of a string: a hex run counts for the hex digits of a digest.
StrLen(s) ==
  IF s = <<>> THEN 0
  ELSE (IF IsRun(Head(s)) THEN 2 * DigestSize ELSE 1) + StrLen(Tail(s))

\* A hex string of the length of an encoded digest.
WellFormedHash(h) == StrLen(h) = 2 * DigestSize /\ DecodeString(h).err = NoErr

\* C8 (not-found propagation): a ReadRawObject call with a well-formed hash of
\* 64 hex digits under which nothing has been written returns an error that
\* errors.Is matches to ErrNotFound, returns no data, and leaves the backend as
\* it was; so does every other ReadRawObject call leave the backend.
C8_NotFound ==
  [][ last'.op = "ReadRawObject" =>
        /\ storage' = storage
        /\ (WellFormedHash(last'.arg) /\ \A w \in written : w.hash # last'.arg) =>
              /\ last'.err # NoErr
              /\ ErrorsIs(last'.err, ErrNotFound)
              /\ last'.data = <<>>
    ]_vars

\* The hash of a record that was never written was read from a store that
\* holds other objects; the error wraps ErrNotFound and is not ErrNotFound itself.
C8_Witness ==
  /\ last.op = "ReadRawObject"
  /\ last.arg = HashOf(SerializeObject(ObjB).data)
  /\ WellFormedHash(last.arg)
  /\ ObjB \notin {w.obj : w \in written}
  /\ Cardinality(DOMAIN storage) >= 2
  /\ ErrorsIs(last.err, ErrNotFound)
  /\ last.err # ErrNotFound
  /\ last.data = <<>>

\* C9 (parent fidelity): when CreateCommit has succeeded, the commit read back
\* under the returned hash has the parent hashes passed, element for element in
\* the order passed, duplicates kept, and the tree hash and the message passed.
C9_ParentFidelity ==
  (last.op = "CreateCommit" /\ last.err = NoErr) =>
    LET r == ReadRawObject(storage, last.hash)
        c == DecodeCommit(r.data)
    IN /\ r.err = NoErr
       /\ c.ok
       /\ Len(c.ParentHashes.elems) = Len(last.parents.elems)
       /\ \A i \in 1..Len(last.parents.elems) : c.ParentHashes.elems[i] = last.parents.elems[i]
       /\ c.TreeHash = last.arg
       /\ c.Message = last.msg

\* A commit was created with a parent list that holds a duplicate and is not
\* sorted once the duplicate is dropped, and with a message that needs escaping.
C9_Witness ==
  /\ last.op = "CreateCommit"
  /\ last.err = NoErr
  /\ last.parents = Slice(<<P1, P2, P1>>)
  /\ last.msg = <<"<">>
  /\ clock = MaxClock
  /\ DecodeCommit(ReadRawObject(storage, last.hash).data).ParentHashes = Slice(<<P1, P2, P1>>)

\* C10 (failed tree write during Commit): a Commit whose backend put of the
\* staging tree fails returns an error and no commit hash; it leaves the backend
\* with the keys and the bytes it had, so no tree object and no commit object is
\* created and every record of an earlier Add still reads back; and it leaves
\* the staging tree as it was.
C10_FailedTreeWrite ==
  [][ (last'.op = "Commit" /\ last'.fault = "tree") =>
        /\ last'.err # NoErr
        /\ last'.hash = <<>>
        /\ storage' = storage
        /\ \A w \in written :
             w.obj # NoObj => ReadRawObject(storage', w.hash) = OkRead(w.data)
        /\ tree' = tree
    ]_vars

\* A Commit failed on the put of a staging tree of two entries: the records added
\* are stored, the tree object is not, and no commit was made.
C10_Witness ==
  /\ last.op = "Commit"
  /\ last.fault = "tree"
  /\ last.err = <<"failed to write tree", "failed to store object", "backend put failed">>
  /\ DOMAIN tree = Names
  /\ Cardinality(DOMAIN storage) = 2
  /\ \A o \in RangeOrders(DOMAIN tree) :
       ReadRawObject(storage, HashOf(SerializeTree(tree, o).data)).err # NoErr
  /\ \A w \in written : w.obj # NoObj

\* The keys a call has added to the backend.
NewKeys == DOMAIN storage' \ DOMAIN storage

\* The backend holds a commit object.
HoldsCommit(st) == \E k \in DOMAIN st : DecodeCommit(st[k]).ok

Persisted(st, o) ==
  ReadRawObject(st, HashOf(SerializeObject(o).data)) = OkRead(SerializeObject(o).data)

\* C12 (Add persists immediately): when Add has returned without an error, the
\* record reads back through ReadRawObject, under its hash, as its
\* serialization; and the record last added under each name of the workspace
\* reads back so in every later state, whether a Commit was made or not.
C12_AddPersists ==
  /\ (last.op = "Add" /\ last.err = NoErr) =>
        Persisted(storage, last.obj) /\ ReadRawObject(storage, last.hash).err = NoErr
  /\ \A n \in DOMAIN latest : Persisted(storage, latest[n])
  /\ \A n \in DOMAIN tree : ReadRawObject(storage, tree[n]).err = NoErr

\* An Add has returned without an error and nothing was ever committed: the
\* backend holds the record, a record written earlier, and no tree or commit object.
C12_Witness ==
  /\ last.op = "Add"
  /\ last.err = NoErr
  /\ last.obj = ObjB
  /\ nCommits = 0
  /\ committedTree = <<>>
  /\ DOMAIN storage = {DecodeString(last.hash).bytes,
                       DecodeString(HashOf(SerializeObject(ObjA1).data)).bytes}
  /\ storage[DecodeString(last.hash).bytes] = SerializeObject(ObjB).data
  /\ tree = MapPut(EmptyMap, <<"B">>, last.hash)

\* C13 (nil store rejection): CreateCommit called with a nil store returns an
\* error and no hash, and NewWorkspace called with a nil store returns an error
\* and no workspace, so that the caller's workspace is the one it had; neither
\* makes a backend put, and the backend is as it was.
C13_NilStore ==
  [][ (last'.op \in {"CreateCommit", "NewWorkspace"} /\ last'.fault = "nil") =>
        /\ last'.err = <<"object store cannot be nil">>
        /\ last'.hash = <<>>
        /\ last'.puts = 0
        /\ storage' = storage
        /\ written' = written
        /\ (last'.op = "NewWorkspace" => ~NewWorkspace(TRUE).ok /\ tree' = tree)
    ]_vars

\* NewWorkspace was called with a nil store by a caller that holds a workspace
\* with a staged entry, on a backend that holds objects.
C13_Witness ==
  /\ last.op = "NewWorkspace"
  /\ last.fault = "nil"
  /\ last.err # NoErr
  /\ tree # EmptyMap
  /\ committedTree # <<>>
  /\ Cardinality(DOMAIN storage) >= 3

\* Goroutine p has returned from WriteObject without an error.
Returned(p) == procs[p].pc = "done" /\ procs[p].err = NoErr

\* C14 (concurrent writes of the same content): when two concurrent WriteObject
\* calls for records of the same serialized bytes have both returned without an
\* error, in whatever interleaving of their steps, they returned the same hash,
\* and the backend holds the bytes of the record under the key of that hash and
\* under no other key; and a ReadRawObject of a well-formed hash that ran
\* concurrently has returned either an error that is ErrNotFound and no data, or
\* no error and the complete bytes of the record of that hash.
C14_ConcurrentWrites ==
  /\ \A p, q \in Writers :
       (Returned(p) /\ Returned(q) /\ SerializeObject(procs[p].obj) = SerializeObject(procs[q].obj)) =>
         LET data == SerializeObject(procs[p].obj).data
             key == DecodeString(procs[p].hash).bytes
         IN /\ procs[p].hash = procs[q].hash
            /\ procs[p].hash = HashOf(data)
            /\ key \in DOMAIN storage
            /\ storage[key] = data
            /\ \A k \in DOMAIN storage : storage[k] = data => k = key
  /\ (procs["r"].pc = "done" /\ WellFormedHash(procs["r"].arg)) =>
       \/ ErrorsIs(procs["r"].err, ErrNotFound) /\ procs["r"].data = <<>>
       \/ /\ procs["r"].err = NoErr
          /\ HashOf(procs["r"].data) = procs["r"].arg
          /\ \E o \in Objects : procs["r"].data = SerializeObject(o).data

\* Two values of one content were written concurrently, both calls returned, and
\* the backend holds the one object; the concurrent read of its hash came before
\* the first put and returned the not-found error.
C14_Witness ==
  /\ procs["w1"].obj = ObjA1
  /\ procs["w2"].obj = ObjA2
  /\ Returned("w1")
  /\ Returned("w2")
  /\ procs["w1"].hash = procs["w2"].hash
  /\ procs["r"].pc = "done"
  /\ procs["r"].arg = procs["w1"].hash
  /\ ErrorsIs(procs["r"].err, ErrNotFound)
  /\ DOMAIN storage = {procs["w1"].key}

\* The entries of the tree object that the commit made by the committing
\* goroutine points to.
CommittedPairs ==
  TreeAt(storage, DecodeCommit(ReadRawObject(storage, threads["c"].hash).data).TreeHash)

\* C15 (Add and Commit under one lock): when every Add and Commit on the
\* workspace runs under one lock, no map access races, so the program is not
\* ended by the runtime, and the tree of a commit that succeeded has exactly the
\* entries of the staging tree built by the Adds that had returned when the
\* Commit began.  Without the lock the calls race: the witness is a state in
\* which a record the concurrent Add has persisted is missing from the tree
\* that the Commit has persisted.
C15_LockedCommits ==
  mutex # "none" =>
    /\ \A t \in Threads : threads[t].pc # "crashed"
    /\ (threads["c"].pc = "done" /\ threads["c"].err = NoErr) =>
          /\ Range(CommittedPairs) = PairsOf(threads["c"].before)
          /\ Len(CommittedPairs) = Cardinality(DOMAIN threads["c"].before)

\* No lock is used; one goroutine is inside Add, past the write of its record
\* and before the update of the staging tree, the other has not called Add; the
\* Commit has succeeded, the record was in the backend before the tree was put,
\* and the tree of the commit has no entry at all.
C15_Witness ==
  /\ mutex = "none"
  /\ threads["c"].pc = "done"
  /\ threads["c"].err = NoErr
  /\ threads["a1"].pc = "entry"
  /\ threads["a2"].pc = "idle"
  /\ DecodeString(threads["a1"].hash).bytes \in threads["c"].stored
  /\ ReadRawObject(storage, threads["a1"].hash) = OkRead(SerializeObject(threads["a1"].obj).data)
  /\ ReadRawObject(storage, threads["c"].hash).err = NoErr
  /\ CommittedPairs = <<>>
  /\ tree = EmptyMap

\* The character that opens the value of the parents field of a stored commit.
ParentsOpen(b) ==
  LET kTree == <<"{", Q, "t", "r", "e", "e", Q, ":">>
      kParents == <<",", Q, "p", "a", "r", "e", "n", "t", "s", Q, ":">>
      t == ParseString(b, 1 + Len(kTree))
      at == t.next + Len(kParents)
  IN IF t.ok /\ StartsWith(b, t.next, kParents) /\ at <= Len(b) THEN b[at] ELSE ""

\* C16 (commit wire format): whatever parent list CreateCommit is called with,
\* the parents field of the commit it has stored is a JSON array, the empty
\* array when there are no parents, and never null or missing.
C16_ParentsArray ==
  (last.op = "CreateCommit" /\ last.err = NoErr) =>
    LET r == ReadRawObject(storage, last.hash)
    IN /\ r.err = NoErr
       /\ ParentsOpen(r.data) = "["
       /\ (last.parents.elems = <<>> =>
             StartsWith(r.data, 1, <<"{", Q, "t", "r", "e", "e", Q, ":">> \o JSONString(last.arg)
                                   \o <<",", Q, "p", "a", "r", "e", "n", "t", "s", Q, ":", "[", "]">>))

\* C17 (failed Add): an Add whose write of the record fails, in Serialize or in
\* the backend put, returns an error and leaves the staging tree with exactly
\* the entries it had; and the tree of a Commit that succeeds has the entries of
\* the staging tree, each the hash of the record last added under the name
\* without an error, so none created or overwritten by a failed Add.
C17_FailedAdd ==
  [][ /\ (last'.op = "Add" /\ (last'.obj.bad \/ last'.fault = "put")) =>
            /\ last'.err # NoErr
            /\ last'.hash = <<>>
            /\ tree' = tree
      /\ (last'.op = "Commit" /\ last'.err = NoErr) =>
            /\ Range(TreeAt(storage', last'.treeHash)) = PairsOf(tree)
            /\ \A n \in DOMAIN tree :
                 n \in DOMAIN latest /\ tree[n] = HashOf(SerializeObject(latest[n]).data)
    ]_vars

\* An Add of a record failed in the backend put, under a name that has an entry
\* in the staging tree for a record of other content, after a Commit.
C17_Witness ==
  /\ last.op = "Add"
  /\ last.fault = "put"
  /\ last.obj = ObjB
  /\ last.err = <<"failed to write object 'B'", "failed to store object", "backend put failed">>
  /\ tree = MapPut(EmptyMap, <<"B">>, HashOf(SerializeObject(ObjA1).data))
  /\ committedTree # <<>>
  /\ ReadRawObject(storage, HashOf(SerializeObject(ObjB).data)).err # NoErr

\* An object is stored in the backend under hash h.
Present(st, h) == ReadRawObject(st, h).err = NoErr

\* C18 (referential integrity): in every state reached by Add and Commit calls
\* whose backend puts succeed or fail, every hash in the staging tree names an
\* object in the backend; and every commit object in the backend, all written
\* by Workspace.Commit, points to a tree object in the backend whose entries
\* all name objects in the backend, so that no state holds a commit whose tree
\* is not yet written.
C18_ReferentialIntegrity ==
  /\ \A n \in DOMAIN tree : Present(storage, tree[n])
  /\ \A k \in DOMAIN storage :
       LET c == DecodeCommit(storage[k])
           t == DecodeTree(ReadRawObject(storage, c.TreeHash).data)
       IN c.ok =>
            /\ Present(storage, c.TreeHash)
            /\ t.ok
            /\ \A i \in 1..Len(t.pairs) : Present(storage, t.pairs[i][2])

\* A Commit has succeeded on a staging tree of two entries for records of
\* different content: the backend holds the two records, the tree and the commit.
C18_Witness ==
  /\ last.op = "Commit"
  /\ last.err = NoErr
  /\ DOMAIN tree = Names
  /\ Cardinality({tree[n] : n \in DOMAIN tree}) = 2
  /\ Cardinality(DOMAIN storage) = 4
  /\ HoldsCommit(storage)
  /\ Len(TreeAt(storage, last.treeHash)) = 2

====
